---- MODULE Spec2Model ----
(***************************************************************************)
(* Model of detect_ethercat_interface.py: the interface source             *)
(* (get_network_interfaces), the sequential EtherCAT probe                 *)
(* (detect_ethercat_interface) and the exit status computed by main.       *)
(*                                                                         *)
(* Python strings are sequences of one-character strings, so that          *)
(* startswith, strip and truthiness are computed, not assumed.  The        *)
(* master stack (pysoem) and the two platform commands are the             *)
(* environment: every call into them may return or raise.                  *)
(***************************************************************************)
EXTENDS Integers, Sequences, FiniteSets, TLC

VARIABLES
    pc,           \* position of the single thread of control
    platform,     \* what the 'ip' and 'ifconfig' commands do when run
    interfaces,   \* local 'interfaces' of detect_ethercat_interface
    idx,          \* 1-based position of the for loop in 'interfaces'
    master,       \* local 'master': FALSE is None, TRUE is a Master object
    slave_count,  \* local 'slave_count'
    result,       \* return value of detect_ethercat_interface
    exitStatus,   \* status handed to sys.exit, -1 while running
    propagated,   \* an exception left detect_ethercat_interface
    printed,      \* slave records printed by the current attempt
    att,          \* history: one record per loop iteration started
    world,        \* the interfaces and slaves outside the program
    run,          \* 1 in the first run of the program, 2 in a second run
    first         \* result and exit status of the first run

vars == <<pc, platform, interfaces, idx, master, slave_count, result,
          exitStatus, propagated, printed, att, world, run, first>>

\* What the program never writes within a run.
env == <<world, run, first>>

\* ------------------------------------------------------------------ bounds
\* Longest stdout, in lines, of a platform command.
MaxLines == 2
\* Largest slave count config_init reports.
MaxSlaves == 2

\* ----------------------------------------------------------------- strings
lo    == <<"l", "o">>
veth0 == <<"v", "e", "t", "h", "0">>
br0   == <<"b", "r", "0">>
eth0  == <<"e", "t", "h", "0">>
eth1  == <<"e", "t", "h", "1">>
enp0s3 == <<"e", "n", "p", "0", "s", "3">>
en0   == <<"e", "n", "0">>
en9   == <<"e", "n", "9">>

\* Interface names the platform listing may contain.
Names == {lo, veth0, br0, eth0, en0}

\* str.startswith
StartsWith(s, p) == Len(s) >= Len(p) /\ SubSeq(s, 1, Len(p)) = p

IsSpace(c) == c \in {" ", "\t"}

RECURSIVE LStrip(_)
LStrip(s) == IF s # <<>> /\ IsSpace(Head(s)) THEN LStrip(Tail(s)) ELSE s

RECURSIVE RStrip(_)
RStrip(s) ==
    IF s # <<>> /\ IsSpace(s[Len(s)]) THEN RStrip(SubSeq(s, 1, Len(s) - 1)) ELSE s

\* str.strip
Strip(s) == RStrip(LStrip(s))

\* -------------------------------------------------- platform command output
\* A line of stdout: its fields when split at ':', and whether the words
\* 'state' (case-insensitively) and 'flags=' occur in it.
IpHeader(n) ==
    [parts |-> << <<"2">>, <<" ">> \o n, <<" ", "<", "U", "P", ">">> >>,
     hasState |-> TRUE, hasFlags |-> FALSE]

IpDetail ==
    [parts |-> << <<" ", " ", "l", "i", "n", "k", " ", "0", "0">>, <<"1", "1">> >>,
     hasState |-> FALSE, hasFlags |-> FALSE]

IfconfigHeader(n) ==
    [parts |-> <<n, <<" ", "f", "l", "a", "g", "s", "=", "1">> >>,
     hasState |-> FALSE, hasFlags |-> TRUE]

IfconfigDetail ==
    [parts |-> << <<"\t", "e", "t", "h", "e", "r", " ", "0", "0">>, <<"1", "1">> >>,
     hasState |-> FALSE, hasFlags |-> FALSE]

IpLines == {IpHeader(n) : n \in Names} \cup {IpDetail}
IfconfigLines == {IfconfigHeader(n) : n \in Names} \cup {IfconfigDetail}

SeqsUpTo(S, n) == UNION {[1..k -> S] : k \in 0..n}

\* What running a command does: raise (it cannot run), or complete with a
\* return code and a stdout.
NoRun == [out |-> "none", lines |-> <<>>]

IpRuns ==
    {[out |-> "raise", lines |-> <<>>]}
    \cup {[out |-> o, lines |-> l] : o \in {"ok", "fail"}, l \in SeqsUpTo(IpLines, MaxLines)}

IfconfigRuns ==
    {[out |-> "raise", lines |-> <<>>]}
    \cup {[out |-> o, lines |-> l] :
            o \in {"ok", "fail"}, l \in SeqsUpTo(IfconfigLines, MaxLines)}

\* ifconfig is run only when ip completed with a non-zero return code.
Platforms ==
    {[ip |-> i, ifconfig |-> NoRun] : i \in {r \in IpRuns : r.out # "fail"}}
    \cup {[ip |-> i, ifconfig |-> f] :
            i \in {r \in IpRuns : r.out = "fail" /\ r.lines = <<>>}, f \in IfconfigRuns}

Consumed == [ip |-> NoRun, ifconfig |-> NoRun]

\* ------------------------------------------------- get_network_interfaces
PrefixLo   == <<"l", "o">>
PrefixVeth == <<"v", "e", "t", "h">>
PrefixEn   == <<"e", "n">>
PrefixEth  == <<"e", "t", "h">>

\* ':' in line
HasColon(line) == Len(line.parts) >= 2

\* Line 31: the names the Linux branch keeps.
KeepsLinux(iface) == ~StartsWith(iface, PrefixLo) /\ ~StartsWith(iface, PrefixVeth)

PrefixBr == <<"b", "r">>

\* Names of loopback, virtual (veth) and bridge interfaces.
IsLoopbackOrVirtual(iface) ==
    \/ StartsWith(iface, PrefixLo)
    \/ StartsWith(iface, PrefixVeth)
    \/ StartsWith(iface, PrefixBr)

\* Line 44: the names the macOS/BSD branch keeps.
KeepsBsd(iface) == StartsWith(iface, PrefixEn) \/ StartsWith(iface, PrefixEth)

\* Lines 25-32: the loop over the lines of 'ip link show'.
RECURSIVE ParseIpLink(_)
ParseIpLink(lines) ==
    IF lines = <<>> THEN <<>>
    ELSE LET line == Head(lines)
             rest == ParseIpLink(Tail(lines))
         IN  IF HasColon(line) /\ line.hasState /\ Len(line.parts) >= 2
                /\ KeepsLinux(Strip(line.parts[2]))
             THEN <<Strip(line.parts[2])>> \o rest
             ELSE rest

\* Lines 40-45: the loop over the lines of 'ifconfig'.
RECURSIVE ParseIfconfig(_)
ParseIfconfig(lines) ==
    IF lines = <<>> THEN <<>>
    ELSE LET line == Head(lines)
             rest == ParseIfconfig(Tail(lines))
         IN  IF HasColon(line) /\ line.hasFlags /\ KeepsBsd(line.parts[1])
             THEN <<line.parts[1]>> \o rest
             ELSE rest

\* Line 50: the fallback list.
Fallback == <<eth0, eth1, enp0s3, en0, en9>>

\* Line 38 passes check=False and the return code of ifconfig is not read:
\* its stdout is parsed whatever the return code.
IfconfigBranch(f) ==
    IF f.out = "raise" THEN Fallback ELSE ParseIfconfig(f.lines)

\* Lines 12-52: the list get_network_interfaces returns.  An exception of
\* subprocess.run (the command cannot be run) is caught at line 47.
NetworkInterfaces(p) ==
    IF p.ip.out = "raise" THEN Fallback
    ELSE IF p.ip.out = "ok" THEN ParseIpLink(p.ip.lines)
    ELSE IfconfigBranch(p.ifconfig)

\* ------------------------------------------------------------------ values
\* A return value of detect_ethercat_interface: not yet returned, None, or
\* an interface name.
Pending == [kind |-> "pending", val |-> <<>>]
None    == [kind |-> "None", val |-> <<>>]
Str(s)  == [kind |-> "str", val |-> s]

\* Python truthiness of None or a str (line 115, 'if interface:').
Truthy(v) == v.kind = "str" /\ v.val # <<>>

\* The test of line 64 without its 'not'.
IsEmptyList_Negated(l) == Len(l) # 0

\* Line 64: 'if not interfaces'.
IsEmptyList(l) == Len(l) = 0

\* The match test with the boundary wrong: zero slaves count as a match.
IsMatch_ZeroMatches(count) == count >= 0

\* Line 80: the match test.
IsMatch(count) == count > 0

\* Exception classes the master stack raises; all derive from Exception.
StackErrors == {"OSError", "RuntimeError"}

\* A handler naming one class only: 'except OSError'.
Caught_OnlyOSError(e) == e = "OSError"

\* Line 96: 'except Exception' catches every class deriving from Exception.
Caught(e) == e \in {"OSError", "RuntimeError", "ValueError", "Exception"}

\* A handler that never closes the session.
HandlerCloses_Never(m) == FALSE

\* A handler that closes whatever master is.
HandlerCloses_Always(m) == TRUE

\* Line 98: 'if master:' a Master object is truthy, None is not.
HandlerCloses(m) == m

\* main with the two branches returning the same status.
ExitStatus_AlwaysZero(interface) == 0

\* Lines 115-127: the status main returns.
ExitStatus(interface) == IF Truthy(interface) THEN 0 ELSE 1

\* A loop that stops one element early.
HasNext_StopsEarly(i, l) == i + 1 < Len(l)

\* Line 69: the for loop has another element to take.
HasNext(i, l) == i < Len(l)

\* An iterator shared between runs, which resumes where it stopped.
IterStart_Resumes == idx

\* Line 69: the for statement makes a new iterator over the list, with no
\* element consumed.
IterStart == 0

\* An iterator that hands out the first element again and again.
Advance_Stuck(i) == IF i = 0 THEN 1 ELSE i

\* Line 69: the iterator moves to the next element.
Advance(i) == i + 1

\* A loop that walks the list from its end.
LoopVar_Reversed(l, i) == l[Len(l) + 1 - i]

\* Line 69: the element bound to 'interface' in iteration i.
LoopVar(l, i) == l[i]

\* master.slaves after config_init returned count: the stack keeps one
\* entry per slave it counted, in segment order (entry k stands for the
\* identity of the slave at place k).
MasterSlaves(count) == [k \in 1..count |-> k]

\* enumerate counting from one.
Enumerate_FromOne(slaves) == [k \in 1..Len(slaves) |-> [i |-> k, slave |-> slaves[k]]]

\* Line 84: enumerate(master.slaves) pairs each entry with its ordinal,
\* counted from zero.
Enumerate(slaves) == [k \in 1..Len(slaves) |-> [i |-> k - 1, slave |-> slaves[k]]]

\* Values config_init may return (pysoem reports -1 or 0 for no slave).
Counts == (-1)..MaxSlaves

\* ------------------------------------------------------------------- world
\* In a free world every call into the master stack may do anything it can
\* do.  In a fixed world what a call does depends on the interface alone,
\* so that two runs meet the same interfaces and slaves.
FreeWorld == [fixed |-> FALSE, platform |-> Consumed, of |-> <<>>]

\* Interfaces of the fixed worlds.
WorldNames == {eth0, en0}

\* What the stack does on one interface: the outcome of the constructor,
\* of open, of config_init (with the count it returns), of reading the
\* slaves, and of close.
Behaviours ==
    {b \in [ctor : {"ok", "OSError"}, open : {"ok", "OSError"},
            init : {"ok", "OSError"}, count : {0, 1},
            read : {"ok", "OSError"}, close : {"ok", "OSError"}] :
        b.init = "OSError" => b.count = 0}

FixedWorlds ==
    {[fixed |-> TRUE,
      platform |-> [ip |-> [out |-> "ok", lines |-> l], ifconfig |-> NoRun],
      of |-> f] :
        l \in SeqsUpTo({IpHeader(n) : n \in WorldNames}, MaxLines),
        f \in [WorldNames -> Behaviours]}

\* ----------------------------------------------------------------- history
NewAttempt(iface) ==
    [iface |-> iface, ctorCalls |-> 0, constructed |-> FALSE,
     openCalls |-> 0, opened |-> FALSE, initCalls |-> 0,
     reported |-> FALSE, closeCalls |-> 0, firstCloseRaised |-> FALSE,
     held |-> FALSE, failed |-> FALSE, recorded |-> FALSE]

Cur == att[Len(att)]
SetCur(r) == [att EXCEPT ![Len(att)] = r]

\* The world lets the call 'step' on the current interface end as 'out'.
Allowed(step, out) == world.fixed => world.of[Cur.iface][step] = out

\* The world lets config_init on the current interface return c.
AllowedCount(c) == world.fixed => world.of[Cur.iface].count = c

NoFirst == [result |-> Pending, exitStatus |-> -1]

\* -------------------------------------------------------------------- Init
Start ==
    /\ pc = "start"
    /\ interfaces = <<>>
    /\ idx = 0
    /\ master = FALSE
    /\ slave_count = 0
    /\ result = Pending
    /\ exitStatus = -1
    /\ propagated = FALSE
    /\ printed = <<>>
    /\ att = <<>>
    /\ run = 1
    /\ first = NoFirst

Init ==
    /\ Start
    /\ platform \in Platforms
    /\ world = FreeWorld

\* Two runs of the program in one unchanged world.
InitTwice ==
    /\ Start
    /\ world \in FixedWorlds
    /\ platform = world.platform

\* ----------------------------------------------------------------- actions
\* A handler that goes on with the next candidate at once: no message, no
\* close.
Raise_SkipsHandler(e) == pc' = "loop" /\ UNCHANGED <<propagated, exitStatus>>

\* An exception e raised inside the try block of lines 73-94: the handler of
\* line 96 takes it when it catches e, else it leaves the function and the
\* interpreter ends the process with status 1.
Raise(e) ==
    IF Caught(e)
    THEN pc' = "handler" /\ UNCHANGED <<propagated, exitStatus>>
    ELSE pc' = "done" /\ propagated' = TRUE /\ exitStatus' = 1

\* Line 61 (lines 12-52): interfaces = get_network_interfaces().
GetNetworkInterfaces ==
    /\ pc = "start"
    /\ interfaces' = NetworkInterfaces(platform)
    /\ pc' = "got"
    /\ UNCHANGED <<platform, idx, master, slave_count, result, exitStatus,
                   propagated, printed, att, env>>

\* Lines 62-69: an empty list returns None at once; else the for statement
\* starts.  The result of the platform commands was local to
\* get_network_interfaces and is gone.
CheckInterfaces ==
    /\ pc = "got"
    /\ platform' = Consumed
    /\ IF IsEmptyList(interfaces)
       THEN result' = None /\ pc' = "main" /\ idx' = idx
       ELSE result' = result /\ pc' = "loop" /\ idx' = IterStart
    /\ UNCHANGED <<interfaces, master, slave_count, exitStatus,
                   propagated, printed, att, env>>

\* Lines 69-72: the for loop takes the next interface; master = None.
ForNext ==
    /\ pc = "loop"
    /\ HasNext(idx, interfaces)
    /\ idx' = Advance(idx)
    /\ master' = FALSE
    /\ att' = Append(att, NewAttempt(LoopVar(interfaces, idx')))
    /\ printed' = <<>>
    /\ pc' = "construct"
    /\ UNCHANGED <<platform, interfaces, slave_count, result, exitStatus,
                   propagated, env>>

\* Lines 104-105: the list is exhausted; return None.
ReturnNone ==
    /\ pc = "loop"
    /\ ~HasNext(idx, interfaces)
    /\ result' = None
    /\ pc' = "main"
    /\ UNCHANGED <<platform, interfaces, idx, master, slave_count, exitStatus,
                   propagated, printed, att, env>>

\* Line 74: master = pysoem.Master().
Construct ==
    /\ pc = "construct"
    /\ \/ /\ Allowed("ctor", "ok")
          /\ master' = TRUE
          /\ att' = SetCur([Cur EXCEPT !.ctorCalls = @ + 1, !.constructed = TRUE])
          /\ pc' = "open"
          /\ UNCHANGED <<propagated, exitStatus>>
       \/ \E e \in StackErrors :
          /\ Allowed("ctor", e)
          /\ master' = master
          /\ att' = SetCur([Cur EXCEPT !.ctorCalls = @ + 1, !.failed = TRUE])
          /\ Raise(e)
    /\ UNCHANGED <<platform, interfaces, idx, slave_count, result, printed, env>>

\* Line 75: master.open(interface).
Open ==
    /\ pc = "open"
    /\ \/ /\ Allowed("open", "ok")
          /\ att' = SetCur([Cur EXCEPT !.openCalls = @ + 1, !.opened = TRUE,
                                       !.held = TRUE])
          /\ pc' = "config_init"
          /\ UNCHANGED <<propagated, exitStatus>>
       \/ \E e \in StackErrors :
          /\ Allowed("open", e)
          /\ att' = SetCur([Cur EXCEPT !.openCalls = @ + 1, !.failed = TRUE])
          /\ Raise(e)
    /\ UNCHANGED <<platform, interfaces, idx, master, slave_count, result,
                   printed, env>>

\* Lines 78-80 and 92-93: slave_count = master.config_init() and the test.
ConfigInit ==
    /\ pc = "config_init"
    /\ \/ \E c \in Counts :
          /\ Allowed("init", "ok")
          /\ AllowedCount(c)
          /\ slave_count' = c
          /\ att' = SetCur([Cur EXCEPT !.initCalls = @ + 1, !.reported = (c >= 1)])
          /\ pc' = IF IsMatch(c) THEN "read_slaves" ELSE "close_noslaves"
          /\ UNCHANGED <<propagated, exitStatus>>
       \/ \E e \in StackErrors :
          /\ Allowed("init", e)
          /\ slave_count' = slave_count
          /\ att' = SetCur([Cur EXCEPT !.initCalls = @ + 1, !.failed = TRUE])
          /\ Raise(e)
    /\ UNCHANGED <<platform, interfaces, idx, master, result, printed, env>>

\* Lines 81-87: the loop over master.slaves printing the ordinal, name, man
\* and id of each; reading one of them may raise after the earlier ones
\* were printed.
ReadSlaves ==
    /\ pc = "read_slaves"
    /\ LET all == Enumerate(MasterSlaves(slave_count))
       IN  \/ /\ Allowed("read", "ok")
              /\ printed' = all
              /\ pc' = "close_match"
              /\ UNCHANGED <<att, propagated, exitStatus>>
           \/ \E e \in StackErrors, k \in 0..(Len(all) - 1) :
              /\ Allowed("read", e)
              /\ printed' = SubSeq(all, 1, k)
              /\ att' = SetCur([Cur EXCEPT !.failed = TRUE])
              /\ Raise(e)
    /\ UNCHANGED <<platform, interfaces, idx, master, slave_count, result, env>>

\* Lines 90-91: master.close(); return interface.
CloseMatch ==
    /\ pc = "close_match"
    /\ \/ /\ Allowed("close", "ok")
          /\ att' = SetCur([Cur EXCEPT !.closeCalls = @ + 1, !.held = FALSE])
          /\ result' = Str(LoopVar(interfaces, idx))
          /\ pc' = "main"
          /\ UNCHANGED <<propagated, exitStatus>>
       \/ \E e \in StackErrors :
          /\ Allowed("close", e)
          /\ att' = SetCur([Cur EXCEPT !.closeCalls = @ + 1, !.held = FALSE,
                                       !.firstCloseRaised = TRUE, !.failed = TRUE])
          /\ result' = result
          /\ Raise(e)
    /\ UNCHANGED <<platform, interfaces, idx, master, slave_count, printed, env>>

\* Line 94: master.close() on the no-slaves branch.
CloseNoSlaves ==
    /\ pc = "close_noslaves"
    /\ \/ /\ Allowed("close", "ok")
          /\ att' = SetCur([Cur EXCEPT !.closeCalls = @ + 1, !.held = FALSE])
          /\ pc' = "loop"
          /\ UNCHANGED <<propagated, exitStatus>>
       \/ \E e \in StackErrors :
          /\ Allowed("close", e)
          /\ att' = SetCur([Cur EXCEPT !.closeCalls = @ + 1, !.held = FALSE,
                                       !.firstCloseRaised = TRUE, !.failed = TRUE])
          /\ Raise(e)
    /\ UNCHANGED <<platform, interfaces, idx, master, slave_count, result,
                   printed, env>>

\* Lines 96-98: the handler prints the error and tests master.
Handler ==
    /\ pc = "handler"
    /\ att' = SetCur([Cur EXCEPT !.recorded = TRUE])
    /\ pc' = IF HandlerCloses(master) THEN "close_handler" ELSE "loop"
    /\ UNCHANGED <<platform, interfaces, idx, master, slave_count, result,
                   exitStatus, propagated, printed, env>>

\* Lines 99-102: master.close() in the handler; the bare except swallows
\* whatever it raises.
CloseHandler ==
    /\ pc = "close_handler"
    /\ \E out \in {"ok"} \cup StackErrors :
          /\ Allowed("close", out)
          /\ att' = SetCur([Cur EXCEPT !.closeCalls = @ + 1, !.held = FALSE,
                                       !.failed = (@ \/ out # "ok")])
    /\ pc' = "loop"
    /\ UNCHANGED <<platform, interfaces, idx, master, slave_count, result,
                   exitStatus, propagated, printed, env>>

\* Lines 108-127 and 131: main maps the result to the exit status.
Main ==
    /\ pc = "main"
    /\ exitStatus' = ExitStatus(result)
    /\ pc' = "done"
    /\ UNCHANGED <<platform, interfaces, idx, master, slave_count, result,
                   propagated, printed, att, env>>

\* Lines 130-131: the program is run again in the same world.  Nothing of
\* the first run is handed to the second: its locals hold whatever is left
\* until the code assigns them.
Restart ==
    /\ pc = "done"
    /\ world.fixed
    /\ run = 1
    /\ run' = 2
    /\ first' = [result |-> result, exitStatus |-> exitStatus]
    /\ platform' = world.platform
    /\ pc' = "start"
    /\ result' = Pending
    /\ exitStatus' = -1
    /\ printed' = <<>>
    /\ att' = <<>>
    /\ UNCHANGED <<interfaces, idx, master, slave_count, propagated, world>>

Next ==
    \/ GetNetworkInterfaces
    \/ CheckInterfaces
    \/ ForNext
    \/ ReturnNone
    \/ Construct
    \/ Open
    \/ ConfigInit
    \/ ReadSlaves
    \/ CloseMatch
    \/ CloseNoSlaves
    \/ Handler
    \/ CloseHandler
    \/ Main

Spec == Init /\ [][Next]_vars

\* Every call into the master stack returns or raises, so the thread of
\* control always takes its next step.
FairSpec == Init /\ [][Next]_vars /\ WF_vars(Next)

NextTwice == Next \/ Restart

SpecTwice == InitTwice /\ [][NextTwice]_vars

\* ------------------------------------------------------------ properties
\* The run is over: detect_ethercat_interface returned and main finished, or
\* an exception ended the process.
Finished == pc = "done"

\* detect_ethercat_interface returned an interface name.
Selected == result.kind = "str"

\* detect_ethercat_interface returned None.
NotFound == result.kind = "None"

\* Loop iterations started, each one attempt on the list element of its
\* position.
Attempts == Len(att)

\* Some attempt had config_init report at least one slave.
SomeReported == \E i \in DOMAIN att : att[i].reported

RECURSIVE SumOpenCalls(_)
SumOpenCalls(a) == IF a = <<>> THEN 0 ELSE Head(a).openCalls + SumOpenCalls(Tail(a))

RECURSIVE SumCloseCalls(_)
SumCloseCalls(a) == IF a = <<>> THEN 0 ELSE Head(a).closeCalls + SumCloseCalls(Tail(a))

\* C1: when the probe returns an interface, it is the first position of the
\* list whose config_init reported one slave or more: no earlier position
\* reported a slave and was passed over.
C1_FirstReporterWins ==
    Selected =>
        /\ att[idx].reported
        /\ \A j \in 1..(idx - 1) : ~att[j].reported

\* C2: after any run, every session on which open was called received
\* exactly one close call: open calls and close calls are equal in number
\* and no session received two close calls.
C2_ClosedExactlyOnce ==
    (Finished /\ (Selected \/ NotFound)) =>
        /\ SumOpenCalls(att) = SumCloseCalls(att)
        /\ \A i \in DOMAIN att : att[i].closeCalls <= 1
        /\ \A i \in DOMAIN att : att[i].openCalls >= 1 => att[i].closeCalls = 1

\* C3: at most one session is held open at any time (opened, and close not
\* yet called on it), and none is held when the probe takes the next
\* candidate or has returned, whichever path the attempt took.
C3_OneSessionReleasedBeforeNext ==
    /\ Cardinality({i \in DOMAIN att : att[i].held}) <= 1
    /\ \A i \in DOMAIN att : att[i].held => (i = Len(att) /\ master)
    /\ pc \in {"loop", "main", "done"} => \A i \in DOMAIN att : ~att[i].held

\* A second session is held open after the first, which was opened, failed
\* and was released by the handler.
C3_Witness ==
    /\ Len(att) = 2
    /\ att[1].opened /\ att[1].failed /\ ~att[1].held
    /\ att[2].held

\* C4: a failure raised in an attempt never leaves the probe and never ends
\* the scan: the attempt records an error, and a run that ends without a
\* match has attempted every candidate.
C4_FailuresSwallowed ==
    /\ ~propagated
    /\ pc \in {"loop", "main", "done"} =>
          \A i \in DOMAIN att : att[i].failed => att[i].recorded
    /\ Finished => (Selected \/ (NotFound /\ Attempts = Len(interfaces)))

\* The run ended after a failure in an attempt that was not the last one.
C4_Witness ==
    /\ Finished
    /\ Len(att) >= 2
    /\ att[1].failed
    /\ att[2].ctorCalls = 1

\* C5: once config_init reported a slave at position i, nothing is attempted
\* at a position after i.
C5_NothingAfterMatch ==
    \A i \in DOMAIN att : att[i].reported => Attempts = i

C7_NotFoundMeansNoMatch ==
    NotFound => (Attempts = Len(interfaces) /\ ~SomeReported)

\* C8: an interface is returned only when, in the attempt on it, open
\* succeeded and config_init reported one slave or more.
C8_SelectedHadSlaves ==
    Selected =>
        /\ idx \in DOMAIN att
        /\ result.val = interfaces[idx]
        /\ att[idx].opened
        /\ att[idx].initCalls = 1
        /\ att[idx].reported
        /\ slave_count >= 1

\* The probe returned an interface.
C8_Witness == Selected /\ pc = "main"

\* C9: main returns 0 when the probe returned an interface, on which
\* config_init reported a slave, and 1 when it returned None.
C9_ExitStatus ==
    Finished =>
        /\ Selected => (exitStatus = 0 /\ att[idx].reported)
        /\ NotFound => exitStatus = 1
        /\ exitStatus \in {0, 1}

\* A run that ended with status 0 after an earlier candidate had no slave.
C9_Witness ==
    /\ Finished
    /\ exitStatus = 0
    /\ Len(att) >= 2

\* Platform enumeration was unavailable or failed: ip could not run, or it
\* reported failure and ifconfig could not run or reported failure.
EnumerationFailed(p) ==
    \/ p.ip.out = "raise"
    \/ p.ip.out = "fail" /\ p.ifconfig.out \in {"raise", "fail"}

\* C10: when platform enumeration is unavailable or fails the fallback list
\* is returned, and an empty list is never the result of such a failure.
C10_FallbackOnFailure ==
    pc = "got" =>
        /\ EnumerationFailed(platform) => interfaces = Fallback
        /\ interfaces = <<>> => ~EnumerationFailed(platform)

\* The attempt at position i is over: the loop went on, or the probe
\* returned.
Over(i) == i < Len(att) \/ pc \in {"loop", "main", "done"}

\* C11: with an empty candidate list the probe returns None from the test
\* of the list, the loop is never entered and no session is constructed,
\* opened, initialized or closed.
C11_EmptyListNotFound ==
    (pc # "start" /\ Len(interfaces) = 0) =>
        /\ att = <<>>
        /\ ~master
        /\ pc \in {"got", "main", "done"}
        /\ pc \in {"main", "done"} => NotFound

\* A run over an empty list that ended with status 1.
C11_Witness ==
    /\ Finished
    /\ Len(interfaces) = 0
    /\ exitStatus = 1
    /\ att = <<>>

C13_NoLoopbackVirtualBridge ==
    pc = "got" =>
        \A k \in DOMAIN interfaces : ~IsLoopbackOrVirtual(interfaces[k])

\* C14: in one attempt open is called only on a constructed Master,
\* config_init only after open succeeded and close only after that; when
\* open fails config_init is never called for the candidate, the error is
\* recorded, the session is closed all the same and the scan goes on with
\* the next candidate.
C14_StepOrder ==
    \A i \in DOMAIN att :
        LET a == att[i]
            openFailed == a.openCalls >= 1 /\ ~a.opened
        IN  /\ a.openCalls >= 1 => a.constructed
            /\ a.initCalls >= 1 => a.opened
            /\ a.closeCalls >= 1 => a.openCalls >= 1
            /\ (a.opened /\ a.closeCalls >= 1) => a.initCalls = 1
            /\ openFailed => (a.initCalls = 0 /\ a.failed /\ ~a.reported)
            /\ (openFailed /\ Over(i)) => (a.recorded /\ a.closeCalls >= 1)
            /\ (openFailed /\ Finished) => (i = Len(interfaces) \/ Len(att) > i)

\* The first candidate failed to open and the second was opened.
C14_Witness ==
    /\ Finished
    /\ Len(att) >= 2
    /\ att[1].openCalls = 1 /\ ~att[1].opened
    /\ att[2].opened

\* Attempt k is on element k of the list, and no call of an attempt is
\* made twice.
InListOrder ==
    /\ Len(att) <= Len(interfaces)
    /\ pc \in {"construct", "open", "config_init", "read_slaves", "close_match",
               "close_noslaves", "handler", "close_handler"} => idx = Len(att)
    /\ \A k \in DOMAIN att :
          /\ att[k].iface = interfaces[k]
          /\ att[k].ctorCalls <= 1
          /\ att[k].openCalls <= 1
          /\ att[k].initCalls <= 1

\* C15: candidates are attempted in list order, position by position and
\* each position once, equal names at different positions included, and
\* the probe never changes the list.
C15_InOrderNoRetry ==
    /\ []InListOrder
    /\ [][pc # "start" => interfaces' = interfaces]_vars

\* A list naming one interface twice, with open called at both positions.
C15_Witness ==
    /\ Len(att) = 2
    /\ interfaces[1] = interfaces[2]
    /\ att[1].openCalls = 1
    /\ att[2].openCalls = 1

C17_Terminates ==
    /\ [](Attempts <= Len(interfaces))
    /\ <>(Finished /\ (Selected \/ NotFound))

\* The longest list, attempted to its end without a match.
C17_Witness ==
    /\ Finished
    /\ NotFound
    /\ Attempts = Len(Fallback)

\* C18: close is called at least once on a constructed Master and never
\* when the constructor failed; at most twice; and a second time only when
\* the first call, on the match or the no-slaves branch, raised.  A failure
\* of the second call leaves the probe no more than any other.
C18_CloseCalls ==
    /\ ~propagated
    /\ \A i \in DOMAIN att :
          LET a == att[i]
          IN  /\ a.closeCalls <= 2
              /\ ~a.constructed => a.closeCalls = 0
              /\ (a.constructed /\ Over(i)) => a.closeCalls >= 1
              /\ a.closeCalls = 2 => (a.firstCloseRaised /\ a.recorded)
              /\ a.firstCloseRaised => a.initCalls = 1

\* The first session was closed twice and the scan went on.
C18_Witness ==
    /\ Finished
    /\ Len(att) >= 2
    /\ att[1].closeCalls = 2
    /\ att[2].ctorCalls = 1

====
